---- MODULE Spec2Model ----
(***************************************************************************)
(* The ETL scripts of Career Mirror (src/etl): three seeders that write    *)
(* rows through one database transaction each, and the embedding sync that *)
(* reads user_profiles and upserts one vector per row into a vector index. *)
(* A script run is a process; every statement that talks to the database,  *)
(* the embedding service or the vector store is one step, and any of them  *)
(* may raise, which ends the run where it stands (no script catches).      *)
(***************************************************************************)
EXTENDS Integers, Sequences, FiniteSets, TLC

VARIABLES
    users,                \* committed rows of table users
    user_profiles,        \* committed rows of table user_profiles
    achievements,         \* committed rows of table achievements
    career_paths,         \* committed rows of table career_paths
    users_id_seq,         \* last value handed out for users.id
    user_profiles_id_seq, \* last value handed out for user_profiles.id
    indexes,              \* names of the indexes of the vector store
    vectors,              \* contents of the index: key -> vector
    create_calls,         \* create_index calls the vector store has received
    pc,                   \* per run: the statement it is at
    conn,                 \* per run: its connection and cursor
    pending,              \* per run: rows inserted and not yet committed
    i,                    \* per run: loop position
    user_id,              \* seed_users: the id returned by the last INSERT
    profiles,             \* sync: the rows fetchall returned
    emb,                  \* sync: the vector returned by the last embed call
    saw,                  \* sync: what list_indexes answered
    log,                  \* history: calls issued by the current run
    pre,                  \* history: the committed tables when the seeder run began
    succeeded,            \* history: completed runs per script
    partial,              \* history: upserts applied by a sync run that then raised
    started               \* history: runs begun so far

vars == <<users, user_profiles, achievements, career_paths, users_id_seq,
          user_profiles_id_seq, indexes, vectors, create_calls, pc, conn,
          pending, i, user_id, profiles, emb, saw, log, pre, succeeded,
          partial, started>>

tables == <<users, user_profiles, achievements, career_paths>>
sequences == <<users_id_seq, user_profiles_id_seq>>
store == <<indexes, vectors, create_calls>>
syncLocals == <<profiles, emb, saw>>

----------------------------------------------------------------------------
(* Bounds *)

\* runs begun in one behaviour, over all scripts
MaxRuns == 3
\* rows per seed_users run: range(20) in the source, scaled to keep TLC finite
BatchSize == 2

(* Program data *)

Seeders == {"seed_users", "seed_achievements", "seed_careers"}
Syncs == {"sync1", "sync2"}
Procs == Seeders \cup Syncs

index_name == "career-mirror"
dimension == 1536
embedding_model == "text-embedding-ada-002"

achievement_list ==
    << <<"First Steps", "Completed first analysis", 50>>,
       <<"Learner", "Took a course", 100>> >>

careers ==
    <<"Data Scientist", "Frontend Developer", "Backend Engineer",
      "UX Designer", "AI Researcher">>

\* random.randint(60000,180000): the two ends of the range
Salaries == {60000, 180000}
lifestyle == "{\"stress\": \"medium\", \"travel\": \"occasional\"}"

\* what Faker hands back
FakeNames == {"Ann Lee"}
FakeEmails == {"ann@example.org"}
FakeJobs == {"Engineer"}
FakeTexts == {"text a", "text b"}

----------------------------------------------------------------------------
(* The database *)

DB ==
    [users |-> users, user_profiles |-> user_profiles,
     achievements |-> achievements, career_paths |-> career_paths]

Range(s) == {s[k] : k \in DOMAIN s}

\* the rows a transaction holds for one table, in insertion order
RowsFor(tx, t) ==
    LET sel == SelectSeq(tx, LAMBDA e : e.table = t)
    IN  [k \in 1..Len(sel) |-> sel[k].row]

\* title UNIQUE: a row conflicts with a committed row or one of its own
\* transaction that has the same title
Conflicts(committed, tx, t, row) ==
    \E r \in Range(committed) \cup Range(RowsFor(tx, t)) : r.title = row.title

\* a plain INSERT where the conflict clause is missing
InsertIgnoringConflict(committed, tx, t, row) ==
    Append(tx, [table |-> t, row |-> row])

\* INSERT ... ON CONFLICT DO NOTHING
InsertOnConflictDoNothing(committed, tx, t, row) ==
    IF Conflicts(committed, tx, t, row)
    THEN tx
    ELSE Append(tx, [table |-> t, row |-> row])

\* INSERT
Insert(tx, t, row) == Append(tx, [table |-> t, row |-> row])

Running(p) == pc[p] \notin {"idle", "done", "failed"}

\* what is left of the processes when script p is started: p starts afresh,
\* and the runs that have ended are gone with their processes
Fresh(f, p, initial) ==
    [q \in Procs |-> IF q = p \/ ~Running(q) THEN initial ELSE f[q]]

\* a script is started (python <script>.py)
Begin(p) ==
    /\ ~Running(p)
    /\ started < MaxRuns
    /\ started' = started + 1
    /\ pc' = [Fresh(pc, p, "idle") EXCEPT
                ![p] = IF p \in Syncs THEN "list_indexes" ELSE "get_conn"]
    /\ conn' = Fresh(conn, p, "none")
    /\ pending' = Fresh(pending, p, <<>>)
    /\ i' = Fresh(i, p, 0)
    /\ user_id' = IF p = "seed_users" \/ ~Running("seed_users") THEN 0 ELSE user_id
    /\ profiles' = Fresh(profiles, p, <<>>)
    /\ emb' = Fresh(emb, p, <<>>)
    /\ saw' = Fresh(saw, p, FALSE)
    /\ log' = Fresh(log, p, <<>>)
    /\ pre' = [Fresh(pre, p, <<>>) EXCEPT ![p] = IF p \in Seeders THEN DB ELSE <<>>]
    /\ UNCHANGED <<tables, sequences, store, succeeded, partial>>

\* a script is started while no other script is running
BeginAlone(p) ==
    /\ \A q \in Procs : ~Running(q)
    /\ Begin(p)

\* conn = get_conn(); cur = conn.cursor()
GetConn(p) ==
    /\ pc[p] = "get_conn"
    /\ conn' = [conn EXCEPT ![p] = "open"]
    /\ i' = [i EXCEPT ![p] = 1]
    /\ pc' = [pc EXCEPT ![p] =
                CASE p = "seed_users" -> IF BatchSize >= 1 THEN "insert_user" ELSE "commit"
                  [] p \in Syncs -> "select"
                  [] OTHER -> "insert"]
    /\ UNCHANGED <<tables, sequences, store, pending, user_id, syncLocals,
                   log, pre, succeeded, partial, started>>

\* conn.commit(): the transaction's rows reach the tables
Commit(p) ==
    /\ p \in Seeders
    /\ pc[p] = "commit"
    /\ users' = users \o RowsFor(pending[p], "users")
    /\ user_profiles' = user_profiles \o RowsFor(pending[p], "user_profiles")
    /\ achievements' = achievements \o RowsFor(pending[p], "achievements")
    /\ career_paths' = career_paths \o RowsFor(pending[p], "career_paths")
    /\ pending' = [pending EXCEPT ![p] = <<>>]
    /\ succeeded' = [succeeded EXCEPT ![p] = @ + 1]
    /\ pc' = [pc EXCEPT ![p] = "close"]
    /\ UNCHANGED <<sequences, store, conn, i, user_id, syncLocals, log, pre,
                   partial, started>>

\* cur.close(); conn.close()
Close(p) ==
    /\ pc[p] = "close"
    /\ conn' = [conn EXCEPT ![p] = "closed"]
    /\ pc' = [pc EXCEPT ![p] = "done"]
    /\ succeeded' = [succeeded EXCEPT ![p] = IF p \in Syncs THEN @ + 1 ELSE @]
    /\ UNCHANGED <<tables, sequences, store, pending, i, user_id, syncLocals,
                   log, pre, partial, started>>

\* a statement raises and the loop of the sync swallows it, going on with the
\* next row
RaiseSwallowed(p) ==
    /\ pc[p] \in {"get_conn", "insert", "insert_user", "insert_profile",
                  "list_indexes", "create_index", "select", "embed", "upsert"}
    /\ IF pc[p] \in {"embed", "upsert"}
       THEN /\ i' = [i EXCEPT ![p] = @ + 1]
            /\ pc' = [pc EXCEPT ![p] = IF i[p] = Len(profiles[p]) THEN "close" ELSE "embed"]
            /\ UNCHANGED partial
       ELSE /\ pc' = [pc EXCEPT ![p] = "failed"]
            /\ partial' = [partial EXCEPT ![p] = IF p \in Syncs THEN 0 ELSE @]
            /\ UNCHANGED i
    /\ UNCHANGED <<tables, sequences, store, conn, pending, user_id,
                   syncLocals, log, pre, succeeded, started>>

\* a statement raises: nothing catches it, the run ends where it stands and
\* the statements after it (commit, close) are never reached
Raise(p) ==
    /\ pc[p] \in {"get_conn", "insert", "insert_user", "insert_profile",
                  "list_indexes", "create_index", "select", "embed", "upsert"}
    /\ pc' = [pc EXCEPT ![p] = "failed"]
    /\ partial' = [partial EXCEPT ![p] =
                     IF p \in Syncs
                     THEN Cardinality({k \in DOMAIN log[p] : log[p][k][1] = "upsert"})
                     ELSE @]
    /\ UNCHANGED <<tables, sequences, store, conn, pending, i, user_id,
                   syncLocals, log, pre, succeeded, started>>

----------------------------------------------------------------------------
(* seed_achievements.py *)

AchievementRow(t) == [title |-> t[1], description |-> t[2], points |-> t[3]]

\* the insert on a connection in autocommit mode: each row is committed as it
\* is inserted
InsertAchievementAutocommit ==
    LET p == "seed_achievements"
        row == AchievementRow(achievement_list[i[p]]) IN
    /\ pc[p] = "insert"
    /\ achievements' = IF Conflicts(achievements, <<>>, "achievements", row)
                       THEN achievements ELSE Append(achievements, row)
    /\ i' = [i EXCEPT ![p] = @ + 1]
    /\ pc' = [pc EXCEPT ![p] = IF i[p] = Len(achievement_list) THEN "commit" ELSE "insert"]
    /\ UNCHANGED <<users, user_profiles, career_paths, sequences, store, conn,
                   pending, user_id, syncLocals, log, pre, succeeded, partial,
                   started>>

\* for t,d,p in achievements: cur.execute(INSERT ... ON CONFLICT DO NOTHING)
InsertAchievement ==
    LET p == "seed_achievements" IN
    /\ pc[p] = "insert"
    /\ pending' = [pending EXCEPT ![p] =
                     InsertOnConflictDoNothing(achievements, @, "achievements",
                                               AchievementRow(achievement_list[i[p]]))]
    /\ i' = [i EXCEPT ![p] = @ + 1]
    /\ pc' = [pc EXCEPT ![p] = IF i[p] = Len(achievement_list) THEN "commit" ELSE "insert"]
    /\ UNCHANGED <<tables, sequences, store, conn, user_id, syncLocals, log,
                   pre, succeeded, partial, started>>

(* seed_analytics.py *)

CareerRow(c, salary) ==
    [title |-> c, description |-> "A career as " \o c,
     avg_salary |-> salary, lifestyle |-> lifestyle]

\* for c in careers: cur.execute(INSERT ... ON CONFLICT DO NOTHING)
InsertCareer ==
    LET p == "seed_careers" IN
    /\ pc[p] = "insert"
    /\ \E salary \in Salaries :
         pending' = [pending EXCEPT ![p] =
                       InsertOnConflictDoNothing(career_paths, @, "career_paths",
                                                 CareerRow(careers[i[p]], salary))]
    /\ i' = [i EXCEPT ![p] = @ + 1]
    /\ pc' = [pc EXCEPT ![p] = IF i[p] = Len(careers) THEN "commit" ELSE "insert"]
    /\ UNCHANGED <<tables, sequences, store, conn, user_id, syncLocals, log,
                   pre, succeeded, partial, started>>

(* seed_profiles.py *)

\* INSERT INTO users (name, email) ... RETURNING id; user_id = cur.fetchone()[0]
InsertUser ==
    LET p == "seed_users" IN
    /\ pc[p] = "insert_user"
    /\ users_id_seq' = users_id_seq + 1
    /\ \E name \in FakeNames, email \in FakeEmails :
         pending' = [pending EXCEPT ![p] =
                       Insert(@, "users", [id |-> users_id_seq', name |-> name,
                                           email |-> email])]
    /\ user_id' = users_id_seq'
    /\ log' = [log EXCEPT ![p] = Append(@, <<"user", users_id_seq'>>)]
    /\ pc' = [pc EXCEPT ![p] = "insert_profile"]
    /\ UNCHANGED <<tables, user_profiles_id_seq, store, conn, i, syncLocals,
                   pre, succeeded, partial, started>>

\* the profile insert passing the loop counter where the returned id belongs
InsertProfileByLoopCounter ==
    LET p == "seed_users" IN
    /\ pc[p] = "insert_profile"
    /\ user_profiles_id_seq' = user_profiles_id_seq + 1
    /\ \E headline \in FakeJobs, profile_text \in FakeTexts :
         pending' = [pending EXCEPT ![p] =
                       Insert(@, "user_profiles",
                              [id |-> user_profiles_id_seq', user_id |-> i[p],
                               headline |-> headline, profile_text |-> profile_text])]
    /\ log' = [log EXCEPT ![p] = Append(@, <<"profile", i[p]>>)]
    /\ i' = [i EXCEPT ![p] = @ + 1]
    /\ pc' = [pc EXCEPT ![p] = IF i[p] >= BatchSize THEN "commit" ELSE "insert_user"]
    /\ UNCHANGED <<tables, users_id_seq, store, conn, user_id, syncLocals,
                   pre, succeeded, partial, started>>

\* INSERT INTO user_profiles (user_id, headline, profile_text)
InsertProfile ==
    LET p == "seed_users" IN
    /\ pc[p] = "insert_profile"
    /\ user_profiles_id_seq' = user_profiles_id_seq + 1
    /\ \E headline \in FakeJobs, profile_text \in FakeTexts :
         pending' = [pending EXCEPT ![p] =
                       Insert(@, "user_profiles",
                              [id |-> user_profiles_id_seq', user_id |-> user_id,
                               headline |-> headline, profile_text |-> profile_text])]
    /\ log' = [log EXCEPT ![p] = Append(@, <<"profile", user_id>>)]
    /\ i' = [i EXCEPT ![p] = @ + 1]
    /\ pc' = [pc EXCEPT ![p] = IF i[p] >= BatchSize THEN "commit" ELSE "insert_user"]
    /\ UNCHANGED <<tables, users_id_seq, store, conn, user_id, syncLocals,
                   pre, succeeded, partial, started>>

----------------------------------------------------------------------------
(* load_embeddings.py *)

Digit(d) ==
    CASE d = 0 -> "0" [] d = 1 -> "1" [] d = 2 -> "2" [] d = 3 -> "3"
      [] d = 4 -> "4" [] d = 5 -> "5" [] d = 6 -> "6" [] d = 7 -> "7"
      [] d = 8 -> "8" [] d = 9 -> "9"

\* str(uid) of an id the store assigned (never negative): its decimal digits
RECURSIVE Str(_)
Str(n) == IF n < 10 THEN Digit(n) ELSE Str(n \div 10) \o Digit(n % 10)

\* openai.Embedding.create(input=text, model=...)["data"][0]["embedding"]:
\* the vector the model gives this text
Embed(text) == [model |-> embedding_model, dimension |-> dimension, of |-> text]

\* index.upsert([(key, vector)]): insert, or replace what the key held
Upsert(idx, key, vector) ==
    [k \in DOMAIN idx \cup {key} |-> IF k = key THEN vector ELSE idx[k]]

\* what SELECT id, profile_text FROM user_profiles returns
SelectProfiles(table) ==
    [k \in 1..Len(table) |-> <<table[k].id, table[k].profile_text>>]

\* the module creating the index without looking at the list
ListIndexesUnchecked(p) ==
    /\ pc[p] = "list_indexes"
    /\ saw' = [saw EXCEPT ![p] = index_name \in indexes]
    /\ pc' = [pc EXCEPT ![p] = "create_index"]
    /\ UNCHANGED <<tables, sequences, store, conn, pending, i, user_id,
                   profiles, emb, log, pre, succeeded, partial, started>>

\* if index_name not in pinecone.list_indexes():
ListIndexes(p) ==
    /\ pc[p] = "list_indexes"
    /\ saw' = [saw EXCEPT ![p] = index_name \in indexes]
    /\ pc' = [pc EXCEPT ![p] = IF index_name \in indexes THEN "get_conn" ELSE "create_index"]
    /\ UNCHANGED <<tables, sequences, store, conn, pending, i, user_id,
                   profiles, emb, log, pre, succeeded, partial, started>>

\* the creation guarded by a second look at the list, taken with the call
CreateIndexIfAbsent(p) ==
    /\ pc[p] = "create_index"
    /\ create_calls' = IF index_name \in indexes THEN create_calls ELSE create_calls + 1
    /\ indexes' = indexes \cup {index_name}
    /\ pc' = [pc EXCEPT ![p] = "get_conn"]
    /\ log' = [log EXCEPT ![p] =
                 IF index_name \in indexes THEN @
                 ELSE Append(@, <<"create_index", dimension>>)]
    /\ UNCHANGED <<tables, sequences, vectors, conn, pending, i, user_id,
                   syncLocals, pre, succeeded, partial, started>>

\* pinecone.create_index(index_name, dimension=1536); for a name the store
\* already has, the store either refuses the call or lets it pass
CreateIndex(p) ==
    /\ pc[p] = "create_index"
    /\ create_calls' = create_calls + 1
    /\ indexes' = indexes \cup {index_name}
    /\ \E refused \in IF index_name \in indexes THEN BOOLEAN ELSE {FALSE} :
         pc' = [pc EXCEPT ![p] = IF refused THEN "failed" ELSE "get_conn"]
    /\ log' = [log EXCEPT ![p] = Append(@, <<"create_index", dimension>>)]
    /\ UNCHANGED <<tables, sequences, vectors, conn, pending, i, user_id,
                   syncLocals, pre, succeeded, partial, started>>

\* the sync taking up after the rows an earlier, failed run had upserted
SelectResuming(p) ==
    /\ pc[p] = "select"
    /\ profiles' = [profiles EXCEPT ![p] = SelectProfiles(user_profiles)]
    /\ i' = [i EXCEPT ![p] = partial[p] + 1]
    /\ pc' = [pc EXCEPT ![p] = IF Len(user_profiles) <= partial[p] THEN "close" ELSE "embed"]
    /\ UNCHANGED <<tables, sequences, store, conn, pending, user_id, emb, saw,
                   log, pre, succeeded, partial, started>>

\* cur.execute("SELECT id, profile_text FROM user_profiles"); cur.fetchall()
Select(p) ==
    /\ pc[p] = "select"
    /\ profiles' = [profiles EXCEPT ![p] = SelectProfiles(user_profiles)]
    /\ i' = [i EXCEPT ![p] = 1]
    /\ pc' = [pc EXCEPT ![p] = IF Len(user_profiles) = 0 THEN "close" ELSE "embed"]
    /\ UNCHANGED <<tables, sequences, store, conn, pending, user_id, emb, saw,
                   log, pre, succeeded, partial, started>>

\* emb = openai.Embedding.create(input=text, ...)
EmbedCall(p) ==
    /\ pc[p] = "embed"
    /\ emb' = [emb EXCEPT ![p] = Embed(profiles[p][i[p]][2])]
    /\ log' = [log EXCEPT ![p] = Append(@, <<"embed", i[p]>>)]
    /\ pc' = [pc EXCEPT ![p] = "upsert"]
    /\ UNCHANGED <<tables, sequences, store, conn, pending, i, user_id,
                   profiles, saw, pre, succeeded, partial, started>>

\* the loop stepping over the row that follows each upsert
UpsertCallSkippingRow(p) ==
    /\ pc[p] = "upsert"
    /\ vectors' = Upsert(vectors, Str(profiles[p][i[p]][1]), emb[p])
    /\ log' = [log EXCEPT ![p] = Append(@, <<"upsert", i[p]>>)]
    /\ i' = [i EXCEPT ![p] = @ + 2]
    /\ pc' = [pc EXCEPT ![p] = IF i[p] + 1 >= Len(profiles[p]) THEN "close" ELSE "embed"]
    /\ UNCHANGED <<tables, sequences, indexes, create_calls, conn, pending,
                   user_id, profiles, emb, saw, pre, succeeded, partial, started>>

\* index.upsert([(str(uid), emb)])
UpsertCall(p) ==
    /\ pc[p] = "upsert"
    /\ vectors' = Upsert(vectors, Str(profiles[p][i[p]][1]), emb[p])
    /\ log' = [log EXCEPT ![p] = Append(@, <<"upsert", i[p]>>)]
    /\ i' = [i EXCEPT ![p] = @ + 1]
    /\ pc' = [pc EXCEPT ![p] = IF i[p] = Len(profiles[p]) THEN "close" ELSE "embed"]
    /\ UNCHANGED <<tables, sequences, indexes, create_calls, conn, pending,
                   user_id, profiles, emb, saw, pre, succeeded, partial, started>>

----------------------------------------------------------------------------
(* Specifications *)

InitTables ==
    /\ users = <<>>
    /\ user_profiles = <<>>
    /\ achievements = <<>>
    /\ career_paths = <<>>
    /\ users_id_seq = 0
    /\ user_profiles_id_seq = 0

InitRuns ==
    /\ pc = [p \in Procs |-> "idle"]
    /\ conn = [p \in Procs |-> "none"]
    /\ pending = [p \in Procs |-> <<>>]
    /\ i = [p \in Procs |-> 0]
    /\ user_id = 0
    /\ profiles = [p \in Procs |-> <<>>]
    /\ emb = [p \in Procs |-> <<>>]
    /\ saw = [p \in Procs |-> FALSE]
    /\ log = [p \in Procs |-> <<>>]
    /\ pre = [p \in Procs |-> <<>>]
    /\ succeeded = [p \in Procs |-> 0]
    /\ partial = [p \in Procs |-> 0]
    /\ started = 0

\* an empty database and a vector store without the index
Init ==
    /\ InitTables
    /\ indexes = {}
    /\ vectors = <<>>
    /\ create_calls = 0
    /\ InitRuns

\* the seeders, one script at a time: each is run to its end before the next
NextSeed ==
    \/ \E p \in Seeders : BeginAlone(p)
    \/ \E p \in Seeders : GetConn(p)
    \/ InsertAchievement
    \/ InsertCareer
    \/ InsertUser
    \/ InsertProfile
    \/ \E p \in Seeders : Commit(p)
    \/ \E p \in Seeders : Close(p)
    \/ \E p \in Seeders : Raise(p)

SpecSeed == Init /\ [][NextSeed]_vars

\* the vector store may or may not hold the index when the first sync starts
InitSync ==
    /\ InitTables
    /\ indexes \in {{}, {index_name}}
    /\ vectors = <<>>
    /\ create_calls = 0
    /\ InitRuns

\* one embedding sync at a time, while seed_users may be run beside it
SyncProcs == {"seed_users", "sync1"}

NextSync ==
    \/ \E p \in SyncProcs : Begin(p)
    \/ \E p \in SyncProcs : GetConn(p)
    \/ InsertUser
    \/ InsertProfile
    \/ Commit("seed_users")
    \/ ListIndexes("sync1")
    \/ CreateIndex("sync1")
    \/ Select("sync1")
    \/ EmbedCall("sync1")
    \/ UpsertCall("sync1")
    \/ \E p \in SyncProcs : Close(p)
    \/ \E p \in SyncProcs : Raise(p)

SpecSync == InitSync /\ [][NextSync]_vars

\* two embedding syncs started side by side; seed_users is run between syncs
NextRace ==
    \/ BeginAlone("seed_users")
    \/ GetConn("seed_users")
    \/ InsertUser
    \/ InsertProfile
    \/ Commit("seed_users")
    \/ Close("seed_users")
    \/ Raise("seed_users")
    \/ \E p \in Syncs :
         \/ /\ ~Running("seed_users")
            /\ Begin(p)
         \/ ListIndexes(p)
         \/ CreateIndex(p)
         \/ GetConn(p)
         \/ Select(p)
         \/ EmbedCall(p)
         \/ UpsertCall(p)
         \/ Close(p)
         \/ Raise(p)

SpecRace == InitSync /\ [][NextRace]_vars

----------------------------------------------------------------------------
(* Properties of the seeders, checked under SpecSeed *)

Titles(table) == {r.title : r \in Range(table)}
AchievementTitles == {achievement_list[k][1] : k \in DOMAIN achievement_list}
CareerTitles == Range(careers)

\* the titles the successful runs of a seeder have seeded so far
SeededTitles(p, listed) == IF succeeded[p] = 0 THEN {} ELSE listed

\* C1: after any sequence of successful runs of a reference-data seeder its
\* table holds exactly one row per distinct title seeded so far: the row
\* count is the size of the union of the titles (2 achievements, 5 career
\* paths), whatever the number of runs.
C1_OneRowPerTitle ==
    /\ Titles(achievements) = SeededTitles("seed_achievements", AchievementTitles)
    /\ Len(achievements) = Cardinality(SeededTitles("seed_achievements", AchievementTitles))
    /\ Titles(career_paths) = SeededTitles("seed_careers", CareerTitles)
    /\ Len(career_paths) = Cardinality(SeededTitles("seed_careers", CareerTitles))

C1_Witness ==
    /\ succeeded["seed_careers"] = 2
    /\ pc["seed_careers"] = "done"
    /\ Len(career_paths) = 5
    /\ succeeded["seed_achievements"] = 1
    /\ Len(achievements) = 2

\* the rows the run of p that committed last added to a table
Added(p, t) == SubSeq(DB[t], Len(pre[p][t]) + 1, Len(DB[t]))

\* C2: every successful run of seed_users adds exactly BatchSize users and
\* BatchSize profiles (k runs: k * BatchSize of each); a profile is inserted
\* after its user, and the profiles of a run reference, one each, the users
\* that run created.
C2_UsersAndProfiles ==
    LET p == "seed_users"
        tx == pending[p]
    IN
    /\ Len(users) = BatchSize * succeeded[p]
    /\ Len(user_profiles) = BatchSize * succeeded[p]
    /\ \A k \in DOMAIN tx :
         tx[k].table = "user_profiles" =>
            \E j \in 1..(k - 1) :
                tx[j].table = "users" /\ tx[j].row.id = tx[k].row.user_id
    /\ pc[p] \in {"close", "done"} =>
         /\ Len(Added(p, "users")) = BatchSize
         /\ Len(Added(p, "user_profiles")) = BatchSize
         /\ \A k \in 1..BatchSize :
              Added(p, "user_profiles")[k].user_id = Added(p, "users")[k].id
         /\ Cardinality({r.id : r \in Range(Added(p, "users"))}) = BatchSize
         /\ \A r \in Range(Added(p, "users")) :
              r.id \notin {q.id : q \in Range(pre[p].users)}

C2_Witness ==
    /\ pc["seed_users"] = "done"
    /\ succeeded["seed_users"] = 2
    /\ Len(users) = 2 * BatchSize
    /\ Len(user_profiles) = 2 * BatchSize

\* C6: a seeder run in which an insert raises commits none of its rows: up
\* to its one commit, and for good if it fails, the committed tables are
\* the tables the run found.
C6_FailedRunCommitsNothing ==
    \A p \in Seeders :
        pc[p] \in {"get_conn", "insert", "insert_user", "insert_profile",
                   "commit", "failed"} => DB = pre[p]

C6_Witness ==
    /\ pc["seed_users"] = "failed"
    /\ Len(pending["seed_users"]) >= 2
    /\ succeeded["seed_users"] = 1

----------------------------------------------------------------------------
(* Properties of the embedding sync, checked under SpecSync and SpecRace *)

\* the embed and upsert calls the current run of p has made, in order
Calls(p) == SelectSeq(log[p], LAMBDA e : e[1] \in {"embed", "upsert"})
Creates(p) == SelectSeq(log[p], LAMBDA e : e[1] = "create_index")
CountOf(p, what) == Len(SelectSeq(log[p], LAMBDA e : e[1] = what))

\* embed row 1, upsert row 1, embed row 2, upsert row 2, ...
InRowOrder(calls) ==
    \A k \in DOMAIN calls :
        calls[k] = IF k % 2 = 1 THEN <<"embed", (k + 1) \div 2>>
                               ELSE <<"upsert", k \div 2>>

\* the index one uninterrupted sync of these rows leaves, starting from idx
RECURSIVE SyncAll(_, _)
SyncAll(idx, rows) ==
    IF rows = <<>> THEN idx
    ELSE SyncAll(Upsert(idx, Str(Head(rows)[1]), Embed(Head(rows)[2])), Tail(rows))

\* C3: a sync run that completes has made one embed call and one upsert per
\* row the SELECT returned, each row once and in order, also when rows were
\* committed to user_profiles after the query.
C3_OneCallPerRowRead ==
    \A p \in Syncs :
        pc[p] \in {"close", "done"} =>
            /\ CountOf(p, "embed") = Len(profiles[p])
            /\ CountOf(p, "upsert") = Len(profiles[p])
            /\ Len(Calls(p)) = 2 * Len(profiles[p])
            /\ InRowOrder(Calls(p))
            /\ Len(profiles[p]) <= Len(user_profiles)
            /\ profiles[p] = SelectProfiles(SubSeq(user_profiles, 1, Len(profiles[p])))

C3_Witness ==
    /\ pc["sync1"] = "done"
    /\ Len(profiles["sync1"]) = BatchSize
    /\ Len(user_profiles) = 2 * BatchSize
    /\ CountOf("sync1", "upsert") = BatchSize

\* C4: every upsert is keyed by the stringified user_id of the profile whose
\* text was embedded: the rows a sync has gone through are in the index under
\* str(user_id), and a completed sync leaves no other key.
C4_KeyedByUserId ==
    \A p \in Syncs :
        /\ \A k \in 1..Len(profiles[p]) :
             <<"upsert", k>> \in Range(log[p]) =>
                /\ Str(user_profiles[k].user_id) \in DOMAIN vectors
                /\ vectors[Str(user_profiles[k].user_id)] = Embed(user_profiles[k].profile_text)
        /\ pc[p] = "done" =>
             DOMAIN vectors = {Str(user_profiles[k].user_id) : k \in 1..Len(profiles[p])}

PastEnsure == {"get_conn", "select", "embed", "upsert", "close", "done"}

\* C5: a sync that finds the index in the list issues no create_index; one
\* that does not issues exactly one, with dimension 1536, before anything
\* else; the index exists whenever a sync is past the check, and with one
\* sync at a time the store receives at most one create_index call.
C5_IndexEnsured ==
    /\ \A p \in Syncs :
         /\ saw[p] => Creates(p) = <<>>
         /\ Len(Creates(p)) <= 1
         /\ (pc[p] \in PastEnsure /\ ~saw[p]) =>
                /\ Creates(p) = << <<"create_index", 1536>> >>
                /\ Head(log[p]) = <<"create_index", 1536>>
         /\ (pc[p] \in PastEnsure \/ CountOf(p, "upsert") > 0) => index_name \in indexes
    /\ create_calls <= 1

C5_Witness ==
    /\ pc["sync1"] = "done"
    /\ saw["sync1"]
    /\ create_calls = 1
    /\ CountOf("sync1", "upsert") >= 1

\* C7: every script has released its connection when its run has ended,
\* whether it completed or a statement raised.
C7_ConnectionReleased ==
    \A p \in Procs : pc[p] \in {"done", "failed"} => conn[p] # "open"

\* C8: the sync goes through the rows strictly in order, embed then upsert,
\* without retry: when the call for row i raises, the run has failed, no
\* call for a later row has been made, the upserts of rows 1..i-1 are in the
\* index, and the run has written nothing to the database.
C8_AbortsAtFirstError ==
    \A p \in Syncs :
        /\ InRowOrder(Calls(p))
        /\ pending[p] = <<>>
        /\ (pc[p] = "failed" /\ i[p] >= 1) =>
             /\ CountOf(p, "upsert") = i[p] - 1
             /\ CountOf(p, "embed") \in {i[p] - 1, i[p]}
             /\ partial[p] = i[p] - 1
             /\ \A k \in 1..(i[p] - 1) :
                  /\ Str(profiles[p][k][1]) \in DOMAIN vectors
                  /\ vectors[Str(profiles[p][k][1])] = Embed(profiles[p][k][2])

C8_Witness ==
    /\ pc["sync1"] = "failed"
    /\ i["sync1"] = 2
    /\ Len(profiles["sync1"]) >= 2
    /\ CountOf("sync1", "embed") = 2
    /\ DOMAIN vectors = {Str(profiles["sync1"][1][1])}

\* C9: a sync run after one that failed partway starts again at the first
\* row, embeds and upserts every row anew, and leaves the index exactly as
\* one uninterrupted run over the rows would: one record per profile.
C9_RerunEqualsOneRun ==
    \A p \in Syncs :
        (pc[p] = "done" /\ partial[p] > 0) =>
            /\ Len(Calls(p)) = 2 * Len(profiles[p])
            /\ InRowOrder(Calls(p))
            /\ vectors = SyncAll(<<>>, profiles[p])
            /\ Cardinality(DOMAIN vectors) = Len(profiles[p])

C9_Witness ==
    /\ pc["sync1"] = "done"
    /\ partial["sync1"] = 1
    /\ Len(profiles["sync1"]) = BatchSize
    /\ Cardinality(DOMAIN vectors) = BatchSize

\* C10: the index check is a check-then-act without a lock: a sync that saw
\* the index absent issues create_index whatever the store holds by then,
\* so two syncs started side by side can both issue it.
C10_CreateAfterStaleCheck ==
    \A p \in Syncs :
        (pc[p] \in PastEnsure /\ ~saw[p]) => Creates(p) = << <<"create_index", dimension>> >>

C10_Witness ==
    /\ create_calls = 2
    /\ \A p \in Syncs : ~saw[p] /\ Len(Creates(p)) = 1 /\ pc[p] \in PastEnsure \cup {"failed"}

====
